---- MODULE Spec2Model ----
(***************************************************************************)
(* Model of the WhatsApp health triage webhook: src/src/lambda_function.py *)
(* (lambda_handler) and src/src/utils.py (signature check, conversation    *)
(* store adapter, classifier, decision step, renderer).                    *)
(*                                                                         *)
(* Python str values are TLA+ strings; a dict is a function on its keys;   *)
(* a list is a sequence.  Values whose Python type decides the behaviour   *)
(* (the parsed LLM reply, the triage result) carry a type tag.             *)
(***************************************************************************)
EXTENDS Integers, Sequences, FiniteSets, TLC

(***************************************************************************)
(* Bounds of the exploration.                                              *)
(***************************************************************************)
MaxRequests == 1
MaxClock == 1
TicksPerSecond == 1
MaxParts == 2

(***************************************************************************)
(* Python str methods used by the code.                                    *)
(***************************************************************************)
UpperChars == "ABCDEFGHIJKLMNOPQRSTUVWXYZ"
LowerChars == "abcdefghijklmnopqrstuvwxyz"

CharAt(s, i) == SubSeq(s, i, i)

\* the lower-case and the upper-case form of each cased character
ToLower == [c \in {CharAt(UpperChars, i) : i \in 1..Len(UpperChars)} |->
               CharAt(LowerChars, CHOOSE i \in 1..Len(UpperChars) : CharAt(UpperChars, i) = c)]

ToUpper == [c \in {CharAt(LowerChars, i) : i \in 1..Len(LowerChars)} |->
               CharAt(UpperChars, CHOOSE i \in 1..Len(LowerChars) : CharAt(LowerChars, i) = c)]

LowerChar(c) == IF c \in DOMAIN ToLower THEN ToLower[c] ELSE c

UpperChar(c) == IF c \in DOMAIN ToUpper THEN ToUpper[c] ELSE c

RECURSIVE lower(_)
lower(s) == IF s = "" THEN "" ELSE LowerChar(CharAt(s, 1)) \o lower(SubSeq(s, 2, Len(s)))

RECURSIVE upper(_)
upper(s) == IF s = "" THEN "" ELSE UpperChar(CharAt(s, 1)) \o upper(SubSeq(s, 2, Len(s)))

IsSpace(c) == c \in {" ", "\t", "\n", "\r"}

RECURSIVE lstrip(_)
lstrip(s) == IF s # "" /\ IsSpace(CharAt(s, 1)) THEN lstrip(SubSeq(s, 2, Len(s))) ELSE s

RECURSIVE rstrip(_)
rstrip(s) ==
    IF s # "" /\ IsSpace(CharAt(s, Len(s))) THEN rstrip(SubSeq(s, 1, Len(s) - 1)) ELSE s

strip(s) == rstrip(lstrip(s))

\* Python's `kw in text` on two str values
Contains(kw, text) ==
    \E i \in 1..(Len(text) - Len(kw) + 1) : SubSeq(text, i, i + Len(kw) - 1) = kw

RECURSIVE str(_)
\* str() of a non-negative int
str(n) ==
    IF n < 10 THEN CharAt("0123456789", n + 1)
    ELSE str(n \div 10) \o CharAt("0123456789", (n % 10) + 1)

(***************************************************************************)
(* Python values with their type.                                          *)
(***************************************************************************)
None == "None"

PyStr(s) == [type |-> "str", val |-> s]
PyInt(n) == [type |-> "int", num |-> n]
PyNone == [type |-> "NoneType"]
PyList(l) == [type |-> "list", items |-> l]
PyDict(d) == [type |-> "dict", entries |-> d]

EmptyDict == [k \in {} |-> None]

\* the outcome of a call: an exception, or the value returned
Raised == [raised |-> TRUE]
Returned(v) == [raised |-> FALSE, value |-> v]

\* d[k] = v on a dict
SetItem(d, k, v) == [x \in (DOMAIN d) \cup {k} |-> IF x = k THEN v ELSE d[x]]

\* d.get(k, default)
Get(d, k, default) == IF k \in DOMAIN d THEN d[k] ELSE default

(***************************************************************************)
(* classify_message and its keyword fallback.                              *)
(***************************************************************************)
high_keywords == <<"chest pain", "shortness of breath", "fainting", "unconscious">>
medium_keywords == <<"fever", "vomit", "infection", "severe pain">>

RECURSIVE AnyKeywordFrom(_, _, _)
\* `for kw in kws: if kw in text: ...; break`, scanning from position i:
\* TRUE when the loop body fires for some keyword
AnyKeywordFrom(kws, text, i) ==
    IF i > Len(kws) THEN FALSE
    ELSE IF Contains(kws[i], text) THEN TRUE
    ELSE AnyKeywordFrom(kws, text, i + 1)

\* mutant: the MEDIUM keywords are scanned first
fallback_urgency_medium_first(msg) ==
    LET text == lower(msg)
    IN  IF AnyKeywordFrom(medium_keywords, text, 1) THEN "MEDIUM"
        ELSE IF AnyKeywordFrom(high_keywords, text, 1) THEN "HIGH"
        ELSE "LOW"

fallback_urgency(msg) ==
    LET text == lower(msg)
    IN  IF AnyKeywordFrom(high_keywords, text, 1) THEN "HIGH"
        ELSE IF AnyKeywordFrom(medium_keywords, text, 1) THEN "MEDIUM"
        ELSE "LOW"

fallback_classifier(msg) ==
    PyDict([symptoms |-> PyList(<<PyStr(msg)>>),
            duration |-> PyStr(""),
            age |-> PyStr(""),
            red_flags |-> PyList(<<>>),
            urgency |-> PyStr(fallback_urgency(msg))])

\* `key in v` for a str key: "True", "False" or "TypeError"
PyIn(key, v) ==
    CASE v.type = "dict" -> IF key \in DOMAIN v.entries THEN "True" ELSE "False"
      [] v.type = "list" -> IF \E i \in 1..Len(v.items) : v.items[i] = PyStr(key)
                            THEN "True" ELSE "False"
      [] v.type = "str" -> IF Contains(key, v.val) THEN "True" ELSE "False"
      [] OTHER -> "TypeError"

\* the try block of classify_message on one outcome of the LLM call: the
\* value it returns, or Raised for an exception inside the block
llm_path(outcome) ==
    IF outcome.kind # "json" THEN Raised
    ELSE LET result == outcome.value
             has == PyIn("urgency", result)
         IN  CASE has = "TypeError" -> Raised
               [] has = "True" -> Returned(result)
               [] has = "False" ->
                    IF result.type = "dict"
                    THEN Returned(PyDict(SetItem(result.entries, "urgency", PyStr("LOW"))))
                    ELSE Raised

\* mutant: every provider name is taken for openai
effective_provider_always_openai(provider, env) == "openai"

\* the provider classify_message branches on
effective_provider(provider, env) ==
    IF provider # "" THEN provider
    ELSE IF env.LLM_PROVIDER = None THEN "openai" ELSE env.LLM_PROVIDER

\* TRUE when classify_message reaches openai.ChatCompletion.create
llm_invoked(provider, env) ==
    /\ effective_provider(provider, env) = "openai"
    /\ env.openai_installed
    /\ env.OPENAI_API_KEY \notin {None, ""}

classify_message(message, history, provider, env, outcome) ==
    IF effective_provider(provider, env) = "openai" /\ env.openai_installed
    THEN IF env.OPENAI_API_KEY \in {None, ""}
         THEN fallback_classifier(message)
         ELSE LET r == llm_path(outcome)
              IN  IF r.raised THEN fallback_classifier(message) ELSE r.value
    ELSE fallback_classifier(message)

(***************************************************************************)
(* verify_twilio_signature.                                                *)
(***************************************************************************)
\* the characters of the model's strings in code-point order
CodePoints == "\t\n\r +,-./0123456789:<=>?ABCDEFGHIJKLMNOPQRSTUVWXYZ[]_abcdefghijklmnopqrstuvwxyz{|}"

Ord == [c \in {CharAt(CodePoints, i) : i \in 1..Len(CodePoints)} |->
           CHOOSE i \in 1..Len(CodePoints) : CharAt(CodePoints, i) = c]

RECURSIVE StrLess(_, _)
\* Python's a < b on two str values
StrLess(a, b) ==
    IF b = "" THEN FALSE
    ELSE IF a = "" THEN TRUE
    ELSE IF CharAt(a, 1) = CharAt(b, 1) THEN StrLess(SubSeq(a, 2, Len(a)), SubSeq(b, 2, Len(b)))
    ELSE Ord[CharAt(a, 1)] < Ord[CharAt(b, 1)]

RECURSIVE SortedKeys(_)
\* the keys of a parameter map in lexicographic order
SortedKeys(S) ==
    IF S = {} THEN <<>>
    ELSE LET m == CHOOSE k \in S : \A o \in S \ {k} : StrLess(k, o)
         IN  <<m>> \o SortedKeys(S \ {m})

RECURSIVE JoinParams(_, _, _)
\* each key followed by its first value, from position i of the key order
JoinParams(keys, params, i) ==
    IF i > Len(keys) THEN ""
    ELSE keys[i] \o params[keys[i]][1] \o JoinParams(keys, params, i + 1)

\* the string the provider signs, as the scheme the docstring refers to
\* defines it: the url, then every parameter name and value, sorted by name
canonical_string(url, params) == url \o JoinParams(SortedKeys(DOMAIN params), params, 1)

\* base64(HMAC-SHA1(key, data)) as an ideal MAC: the digest names its key and data
hmac_sha1_b64(key, data) == "{" \o key \o "}{" \o data \o "}"

\* params.items(): the (key, values) pairs of a dict in its iteration order,
\* which is the order the keys were inserted in
Items(params, order) == [i \in 1..Len(order) |-> <<order[i], params[order[i]]>>]

\* Python's a < b on two (str, str) tuples
TupleLess(a, b) == StrLess(a[1], b[1]) \/ (a[1] = b[1] /\ StrLess(a[2], b[2]))

RECURSIVE Insert(_, _)
\* p placed into an ascending list of tuples
Insert(p, pairs) ==
    IF pairs = <<>> THEN <<p>>
    ELSE IF TupleLess(p, Head(pairs)) THEN <<p>> \o pairs
    ELSE <<Head(pairs)>> \o Insert(p, Tail(pairs))

RECURSIVE sorted(_)
\* sorted() of a list of tuples
sorted(pairs) == IF pairs = <<>> THEN <<>> ELSE Insert(Head(pairs), sorted(Tail(pairs)))

\* mutant: the pairs are taken in the order they were supplied
sorted_params_as_supplied(items) ==
    [i \in 1..Len(items) |-> <<items[i][1], items[i][2][1]>>]

\* sorted((k, v[0] if isinstance(v, list) else v) for k, v in params.items());
\* parse_qs and local_runner give every key a non-empty list
sorted_params(items) == sorted([i \in 1..Len(items) |-> <<items[i][1], items[i][2][1]>>])

RECURSIVE JoinPairsDelimited(_, _)
\* mutant: every key and value is closed by a delimiter
JoinPairsDelimited(pairs, i) ==
    IF i > Len(pairs) THEN ""
    ELSE pairs[i][1] \o "=" \o pairs[i][2] \o "&" \o JoinPairsDelimited(pairs, i + 1)

RECURSIVE JoinPairs(_, _)
\* ''.join(k + v for k, v in sorted_params), from position i
JoinPairs(pairs, i) ==
    IF i > Len(pairs) THEN ""
    ELSE pairs[i][1] \o pairs[i][2] \o JoinPairs(pairs, i + 1)

\* data = url + ''.join(k + v for k, v in sorted_params)
data(url, items) == url \o JoinPairs(sorted_params(items), 1)

\* hmac.compare_digest accepts str arguments of ASCII characters only
IsAscii(s) == \A i \in 1..Len(s) : CharAt(s, i) \in DOMAIN Ord

\* mutant: the comparison is skipped for a non-empty signature header
verify_any_signature(signature, url, items, auth_token, twilio_installed) ==
    Returned(signature # "")

\* verify_twilio_signature on params.items(): Returned(TRUE or FALSE), or
\* Raised.  With the twilio package installed RequestValidator.validate
\* computes the same digest over the flattened params and compares it in
\* Python; without it hmac.compare_digest raises TypeError on a non-ASCII
\* signature.  Neither path looks at whether auth_token is empty.
verify_twilio_signature(signature, url, items, auth_token, twilio_installed) ==
    LET computed_signature == hmac_sha1_b64(auth_token, data(url, items))
    IN  IF twilio_installed THEN Returned(computed_signature = signature)
        ELSE IF ~IsAscii(signature) THEN Raised
        ELSE Returned(computed_signature = signature)

(***************************************************************************)
(* Conversation store adapter, transcript, notification, renderer.         *)
(***************************************************************************)
\* datetime.now(timezone.utc).isoformat(): seconds and the sub-second part
isoformat(t) == str(t \div TicksPerSecond) \o "." \o str(t % TicksPerSecond) \o "+00:00"

\* int(time.time()): whole seconds
epoch_seconds(t) == t \div TicksPerSecond

\* table.get_item(Key={'user_id': user_id}) on a lookup that does not raise
get_item(tbl, user_id) ==
    IF user_id \in DOMAIN tbl THEN [Item |-> tbl[user_id]] ELSE EmptyDict

\* mutant: the item found is ignored
load_conversation_always_new(tbl, user_id, lookup_ok, t) ==
    [user_id |-> user_id,
     history |-> <<>>,
     last_intent |-> None,
     triage_level |-> None,
     created_at |-> isoformat(t),
     updated_at |-> isoformat(t)]

\* load_conversation; lookup_ok = FALSE is a get_item that raises
load_conversation(tbl, user_id, lookup_ok, t) ==
    LET response == IF lookup_ok THEN get_item(tbl, user_id) ELSE EmptyDict
    IN  IF "Item" \notin DOMAIN response
        THEN [user_id |-> user_id,
              history |-> <<>>,
              last_intent |-> None,
              triage_level |-> None,
              created_at |-> isoformat(t),
              updated_at |-> isoformat(t)]
        ELSE response.Item

\* the item store_conversation puts
stamped(conversation, t) == SetItem(conversation, "updated_at", isoformat(t))

\* mutant: every item is put under the same key
put_item_one_key(tbl, item) == SetItem(tbl, "+1", item)

\* table.put_item(Item=item): upsert keyed by the item's user_id
put_item(tbl, item) == SetItem(tbl, item.user_id, item)

RECURSIVE join_lines(_, _)
\* "\n".join(lines) from position i
join_lines(lines, i) ==
    IF i > Len(lines) THEN ""
    ELSE IF i = Len(lines) THEN lines[i]
    ELSE lines[i] \o "\n" \o join_lines(lines, i + 1)

\* the transcript lambda_handler builds from the conversation's history
transcript_of(conversation) ==
    LET history == Get(conversation, "history", <<>>)
        lines == [i \in 1..Len(history) |->
                     str(history[i].timestamp) \o ": " \o history[i].message]
    IN  join_lines(lines, 1)

\* the object key upload_transcript writes: strftime at one-second resolution
transcript_key(user_id, t) ==
    user_id \o "/transcript_" \o str(epoch_seconds(t)) \o ".txt"

generate_twiml_response(message) ==
    "<?xml version=\"1.0\" encoding=\"UTF-8\"?>\n<Response>\n    <Message>"
        \o message \o "</Message>\n</Response>"

(***************************************************************************)
(* build_response_and_state.                                               *)
(***************************************************************************)
EMERGENCY_REPLY ==
    "Based on the symptoms you described, it may be an emergency. "
        \o "Please call your local emergency number or visit the nearest emergency room immediately."

SCHEDULING_REPLY ==
    "Thanks for providing more details. It sounds like your situation is not urgent, "
        \o "but we would like to schedule an appointment. Please reply with your name and a preferred "
        \o "day/time for a call or visit."

SELF_CARE_REPLY ==
    "It appears your symptoms are mild. Here are some general self-care tips: rest, stay hydrated and monitor your symptoms. "
        \o "If they worsen or new symptoms appear, please contact a healthcare professional."

\* urgency = triage_result.get('urgency', 'LOW').upper(): the str, or Raised
\* when triage_result has no get or the urgency has no upper
normalized_urgency(triage_result) ==
    IF triage_result.type # "dict" THEN Raised
    ELSE LET u == Get(triage_result.entries, "urgency", PyStr("LOW"))
         IN  IF u.type # "str" THEN Raised ELSE Returned(upper(u.val))

\* mutant: the history is restarted with the new entry
updated_conversation_reset(conversation, urgency, message, t) ==
    LET entry == [timestamp |-> epoch_seconds(t), message |-> message]
        c1 == SetItem(conversation, "history", <<entry>>)
        c2 == SetItem(c1, "triage_level", urgency)
    IN  SetItem(c2, "last_intent", "triage")

\* mutant: a HIGH triage_level is kept once set
updated_conversation_sticky(conversation, urgency, message, t) ==
    LET history == Get(conversation, "history", <<>>)
        entry == [timestamp |-> epoch_seconds(t), message |-> message]
        c1 == SetItem(conversation, "history", Append(history, entry))
        c2 == SetItem(c1, "triage_level",
                      IF Get(conversation, "triage_level", None) = "HIGH" THEN "HIGH" ELSE urgency)
    IN  SetItem(c2, "last_intent", "triage")

\* the conversation after the history append and the two field assignments
updated_conversation(conversation, urgency, message, t) ==
    LET history == Get(conversation, "history", <<>>)
        entry == [timestamp |-> epoch_seconds(t), message |-> message]
        c1 == SetItem(conversation, "history", Append(history, entry))
        c2 == SetItem(c1, "triage_level", urgency)
    IN  SetItem(c2, "last_intent", "triage")

\* the arguments of send_alert; json.dumps(triage_result) is kept as the value
alert(topic_arn, user_id, triage_result) ==
    [TopicArn |-> topic_arn,
     Subject |-> "High urgency triage alert for user " \o user_id,
     Message |-> <<"User " \o user_id \o " has reported symptoms requiring immediate attention.\nExtracted fields: ",
                   triage_result,
                   "\n\nPlease contact the patient as soon as possible.">>]

\* mutant: no urgency alerts
alerts_never(urgency) == FALSE

\* mutant: MEDIUM alerts too
alerts_medium(urgency) == urgency \in {"HIGH", "MEDIUM"}

\* TRUE when build_response_and_state takes the branch that calls send_alert
alerts(urgency) == urgency = "HIGH"

reply_for(urgency) ==
    IF urgency = "HIGH" THEN EMERGENCY_REPLY
    ELSE IF urgency = "MEDIUM" THEN SCHEDULING_REPLY
    ELSE SELF_CARE_REPLY

(***************************************************************************)
(* Inputs: the process environment, the webhook requests, the outcomes of  *)
(* the LLM call.                                                           *)
(***************************************************************************)
Slots == {1, 2}

\* what an invocation is counted calling: the external services and the classifier
Services == {"get_item", "put_item", "put_object", "publish", "llm", "classify_message"}

\* os.environ as read by lambda_function.py at import and by classify_message
LLMEnvs ==
    [LLM_PROVIDER : {None, "", "openai", "bedrock"},
     OPENAI_API_KEY : {None, "", "sk-test"},
     openai_installed : BOOLEAN]

\* two builds: the LLM path without the twilio package, and the keyword
\* fallback with it
Builds ==
    {[LLM_PROVIDER |-> None, OPENAI_API_KEY |-> "sk-test", openai_installed |-> TRUE,
      twilio_installed |-> FALSE],
     [LLM_PROVIDER |-> "bedrock", OPENAI_API_KEY |-> None, openai_installed |-> TRUE,
      twilio_installed |-> TRUE]}

HandlerEnvs ==
    {[DYNAMODB_TABLE |-> t, S3_BUCKET |-> b, SNS_TOPIC_ARN |-> "arn:test-topic",
      TWILIO_AUTH_TOKEN |-> "test-token",
      LLM_PROVIDER |-> l.LLM_PROVIDER, OPENAI_API_KEY |-> l.OPENAI_API_KEY,
      openai_installed |-> l.openai_installed, twilio_installed |-> l.twilio_installed] :
        t \in {None, "test-table"}, b \in {None, "test-bucket"}, l \in Builds}

\* llm_provider = os.environ.get('LLM_PROVIDER', 'openai')
llm_provider(e) == IF e.LLM_PROVIDER = None THEN "openai" ELSE e.LLM_PROVIDER

\* `if table:` / `if bucket_name:` on a value of os.environ.get
Configured(v) == v \notin {None, ""}

FullUrl == "https://example.com/webhook"

FromValues == {" ", "+1"}
BodyValues == {"  ", " mild headache ", "Chest Pain and fever"}

\* parse_qs(body): a key is present only with a non-blank value
ParamSets ==
    {[k \in ks |-> <<IF k = "From" THEN f ELSE b>>] :
        ks \in SUBSET {"From", "Body"}, f \in FromValues, b \in BodyValues}

\* a request the provider signed earlier
ReplayedParams == [From |-> <<"+1">>, Body |-> <<"Chest Pain and fever">>]

\* the X-Twilio-Signature header for one request: missing, junk, junk with a
\* non-ASCII character, genuine, or the genuine signature of ReplayedParams
SignaturesFor(params, token) ==
    {"", "dummy-signature", "dummy-signaturé",
     hmac_sha1_b64(token, canonical_string(FullUrl, params)),
     hmac_sha1_b64(token, canonical_string(FullUrl, ReplayedParams))}

\* what openai.ChatCompletion.create and json.loads yield
UrgencyDict(u) == PyDict([symptoms |-> PyList(<<>>), urgency |-> u])

LLMOutcomes ==
    {[kind |-> "network_error"], [kind |-> "no_content"], [kind |-> "not_json"]}
    \cup {[kind |-> "json", value |-> v] :
            v \in {UrgencyDict(PyStr("high")), UrgencyDict(PyStr("Medium")),
                   UrgencyDict(PyStr("CRITICAL")), UrgencyDict(PyNone),
                   UrgencyDict(PyInt(3)),
                   PyDict([symptoms |-> PyList(<<>>)]),
                   PyList(<<>>), PyList(<<PyStr("urgency")>>),
                   PyStr("urgency: high"), PyStr("hello"), PyInt(5), PyNone}}

NoCall == [kind |-> "not_called"]

\* auth_token = twilio_auth_token or ''
auth_token_of(e) == IF e.TWILIO_AUTH_TOKEN = None THEN "" ELSE e.TWILIO_AUTH_TOKEN

Tokens == {"test-token", ""}

\* the order of the fields in the request body
BodyOrder(ks) == SelectSeq(<<"From", "Body">>, LAMBDA k : k \in ks)

\* the events the host can deliver when the provider signs with token: the
\* signature header, parse_qs(body) and the order of its keys
Events ==
    [token \in Tokens |->
        UNION {{[signature |-> sg, params |-> ps, order |-> BodyOrder(DOMAIN ps)] :
                   sg \in SignaturesFor(ps, token)} : ps \in ParamSets}]

(***************************************************************************)
(* State.                                                                  *)
(***************************************************************************)
VARIABLES
    env,            \* the process environment (module-level configuration)
    now,            \* the wall clock, in ticks
    table,          \* the DynamoDB table: user_id -> item
    s3,             \* the bucket: key -> body
    sns,            \* the notifications published, in order
    nreq,           \* requests each slot of the host has received
    maxActive,      \* invocations the host runs at once
    pc,             \* position of each invocation of lambda_handler
    event,          \* its event: signature header and parsed params
    user_id,        \* its locals
    message,
    conversation,
    triage_result,
    reply_message,
    response,       \* the dict it returns
    calls,          \* calls it made, per external service
    raised          \* the services whose call raised in it

vars == <<env, now, table, s3, sns, nreq, maxActive, pc, event, user_id, message,
          conversation, triage_result, reply_message, response, calls, raised>>

shared == <<env, now, table, s3, sns, nreq, maxActive>>

NoCalls == [svc \in Services |-> 0]

\* what an earlier invocation left behind after a HIGH message of user +1,
\* handled at time 0 by the keyword fallback
EarlierUser == "+1"
EarlierMessage == "Chest Pain and fever"

EarlierConversation ==
    stamped(updated_conversation(load_conversation(EmptyDict, EarlierUser, TRUE, 0),
                                 "HIGH", EarlierMessage, 0), 0)

\* the stores at start: untouched, or as the earlier invocation left them
InitStores(e, earlier) ==
    /\ table = IF earlier /\ Configured(e.DYNAMODB_TABLE)
               THEN put_item(EmptyDict, EarlierConversation) ELSE EmptyDict
    /\ s3 = IF earlier /\ Configured(e.S3_BUCKET)
            THEN SetItem(EmptyDict, transcript_key(EarlierUser, 0),
                         transcript_of(EarlierConversation))
            ELSE EmptyDict
    /\ sns = IF earlier
             THEN <<alert(e.SNS_TOPIC_ARN, EarlierUser, fallback_classifier(EarlierMessage))>>
             ELSE <<>>

InitWith(active) ==
    /\ env \in HandlerEnvs
    /\ now = 0
    /\ \E earlier \in BOOLEAN : InitStores(env, earlier)
    /\ nreq = [r \in Slots |-> 0]
    /\ maxActive = active
    /\ pc = [r \in Slots |-> "idle"]
    /\ event = [r \in Slots |-> EmptyDict]
    /\ user_id = [r \in Slots |-> None]
    /\ message = [r \in Slots |-> None]
    /\ conversation = [r \in Slots |-> EmptyDict]
    /\ triage_result = [r \in Slots |-> PyNone]
    /\ reply_message = [r \in Slots |-> None]
    /\ response = [r \in Slots |-> EmptyDict]
    /\ calls = [r \in Slots |-> NoCalls]
    /\ raised = [r \in Slots |-> {}]

Init == InitWith(1)

Active == {r \in Slots : pc[r] \notin {"idle", "done", "crashed"}}

\* one more call of svc by r; ok = FALSE when it raises
Called(r, svc, ok) ==
    /\ calls' = [calls EXCEPT ![r][svc] = @ + 1]
    /\ raised' = IF ok THEN raised ELSE [raised EXCEPT ![r] = @ \cup {svc}]

\* mutant: rejects only when both fields are missing
missing_both_fields(uid, msg) == uid = "" /\ msg = ""

\* `if not user_id or not message:`
missing_field(uid, msg) == uid = "" \/ msg = ""

\* r leaves lambda_handler (a return, or an exception that escapes it): its
\* locals are gone
Leave(r, how) ==
    /\ pc' = [pc EXCEPT ![r] = how]
    /\ user_id' = [user_id EXCEPT ![r] = None]
    /\ message' = [message EXCEPT ![r] = None]
    /\ conversation' = [conversation EXCEPT ![r] = EmptyDict]
    /\ triage_result' = [triage_result EXCEPT ![r] = PyNone]
    /\ reply_message' = [reply_message EXCEPT ![r] = None]

(***************************************************************************)
(* lambda_handler, one action per step.                                    *)
(***************************************************************************)
\* the host invokes lambda_handler on a new event
Receive(r) ==
    /\ pc[r] \in {"idle", "done", "crashed"}
    /\ nreq[r] < MaxRequests
    /\ Cardinality(Active) < maxActive
    /\ r \in 1..maxActive
    /\ \E e \in Events[auth_token_of(env)] : event' = [event EXCEPT ![r] = e]
    /\ nreq' = [nreq EXCEPT ![r] = @ + 1]
    /\ pc' = [pc EXCEPT ![r] = "verify"]
    /\ user_id' = [user_id EXCEPT ![r] = None]
    /\ message' = [message EXCEPT ![r] = None]
    /\ conversation' = [conversation EXCEPT ![r] = EmptyDict]
    /\ triage_result' = [triage_result EXCEPT ![r] = PyNone]
    /\ reply_message' = [reply_message EXCEPT ![r] = None]
    /\ response' = [response EXCEPT ![r] = EmptyDict]
    /\ calls' = [calls EXCEPT ![r] = NoCalls]
    /\ raised' = [raised EXCEPT ![r] = {}]
    /\ UNCHANGED <<env, now, table, s3, sns, maxActive>>

\* lines 90-98
VerifySignature(r) ==
    /\ pc[r] = "verify"
    /\ LET valid == verify_twilio_signature(event[r].signature, FullUrl,
                                            Items(event[r].params, event[r].order),
                                            auth_token_of(env), env.twilio_installed)
       IN  IF valid.raised
           THEN /\ Leave(r, "crashed")
                /\ UNCHANGED response
           ELSE IF ~valid.value
           THEN /\ response' = [response EXCEPT ![r] =
                       [statusCode |-> 403, body |-> "Invalid signature"]]
                /\ Leave(r, "done")
           ELSE /\ pc' = [pc EXCEPT ![r] = "validate"]
                /\ UNCHANGED <<response, user_id, message, conversation, triage_result,
                               reply_message>>
    /\ UNCHANGED <<shared, event, calls, raised>>

\* lines 100-107
Validate(r) ==
    /\ pc[r] = "validate"
    /\ LET uid == Get(event[r].params, "From", <<"">>)[1]
           msg == strip(Get(event[r].params, "Body", <<"">>)[1])
       IN  IF missing_field(uid, msg)
           THEN /\ response' = [response EXCEPT ![r] =
                       [statusCode |-> 400, body |-> "Missing From or Body parameter"]]
                /\ Leave(r, "done")
           ELSE /\ user_id' = [user_id EXCEPT ![r] = uid]
                /\ message' = [message EXCEPT ![r] = msg]
                /\ pc' = [pc EXCEPT ![r] = "load"]
                /\ UNCHANGED <<response, conversation, triage_result, reply_message>>
    /\ UNCHANGED <<shared, event, calls, raised>>

\* line 110
Load(r) ==
    /\ pc[r] = "load"
    /\ IF Configured(env.DYNAMODB_TABLE)
       THEN \E lookup_ok \in BOOLEAN :
               /\ conversation' = [conversation EXCEPT ![r] =
                                      load_conversation(table, user_id[r], lookup_ok, now)]
               /\ Called(r, "get_item", lookup_ok)
       ELSE /\ conversation' = [conversation EXCEPT ![r] = EmptyDict]
            /\ UNCHANGED <<calls, raised>>
    /\ pc' = [pc EXCEPT ![r] = "classify"]
    /\ UNCHANGED <<shared, event, user_id, message, triage_result, reply_message, response>>

\* line 113
Classify(r) ==
    /\ pc[r] = "classify"
    /\ LET history == Get(conversation[r], "history", <<>>)
           provider == llm_provider(env)
       IN  IF llm_invoked(provider, env)
           THEN \E outcome \in LLMOutcomes :
                   /\ triage_result' = [triage_result EXCEPT ![r] =
                          classify_message(message[r], history, provider, env, outcome)]
                   /\ calls' = [calls EXCEPT ![r]["classify_message"] = @ + 1,
                                             ![r]["llm"] = @ + 1]
                   /\ raised' = IF outcome.kind = "network_error"
                                THEN [raised EXCEPT ![r] = @ \cup {"llm"}]
                                ELSE raised
           ELSE /\ triage_result' = [triage_result EXCEPT ![r] =
                       classify_message(message[r], history, provider, env, NoCall)]
                /\ calls' = [calls EXCEPT ![r]["classify_message"] = @ + 1]
                /\ UNCHANGED raised
    /\ pc' = [pc EXCEPT ![r] = "decide"]
    /\ UNCHANGED <<shared, event, user_id, message, conversation, reply_message, response>>

\* lines 116-123: build_response_and_state, the publish of a HIGH alert included
Decide(r) ==
    /\ pc[r] = "decide"
    /\ LET u == normalized_urgency(triage_result[r])
       IN  IF u.raised
           THEN /\ Leave(r, "crashed")
                /\ UNCHANGED <<sns, calls, raised>>
           ELSE IF alerts(u.value)
           THEN \E publish_ok \in BOOLEAN :
                   /\ Called(r, "publish", publish_ok)
                   /\ IF publish_ok
                      THEN /\ sns' = Append(sns, alert(env.SNS_TOPIC_ARN, user_id[r],
                                                       triage_result[r]))
                           /\ conversation' = [conversation EXCEPT ![r] =
                                  updated_conversation(@, u.value, message[r], now)]
                           /\ reply_message' = [reply_message EXCEPT ![r] = reply_for(u.value)]
                           /\ pc' = [pc EXCEPT ![r] = "store"]
                           /\ UNCHANGED <<user_id, message, triage_result>>
                      ELSE /\ Leave(r, "crashed")
                           /\ UNCHANGED sns
           ELSE /\ conversation' = [conversation EXCEPT ![r] =
                       updated_conversation(@, u.value, message[r], now)]
                /\ reply_message' = [reply_message EXCEPT ![r] = reply_for(u.value)]
                /\ pc' = [pc EXCEPT ![r] = "store"]
                /\ UNCHANGED <<sns, calls, raised, user_id, message, triage_result>>
    /\ UNCHANGED <<env, now, table, s3, nreq, maxActive, event, response>>

\* lines 126-127
Store(r) ==
    /\ pc[r] = "store"
    /\ IF Configured(env.DYNAMODB_TABLE)
       THEN \E put_ok \in BOOLEAN :
               /\ Called(r, "put_item", put_ok)
               /\ IF put_ok
                  THEN /\ table' = put_item(table, stamped(conversation[r], now))
                       /\ conversation' = [conversation EXCEPT ![r] = stamped(@, now)]
                       /\ pc' = [pc EXCEPT ![r] = "upload"]
                       /\ UNCHANGED <<user_id, message, triage_result, reply_message>>
                  ELSE /\ Leave(r, "crashed")
                       /\ UNCHANGED table
       ELSE /\ pc' = [pc EXCEPT ![r] = "upload"]
            /\ UNCHANGED <<table, calls, raised, user_id, message, conversation,
                           triage_result, reply_message>>
    /\ UNCHANGED <<env, now, s3, sns, nreq, maxActive, event, response>>

\* lines 128-131
Upload(r) ==
    /\ pc[r] = "upload"
    /\ IF Configured(env.S3_BUCKET)
       THEN \E put_ok \in BOOLEAN :
               /\ Called(r, "put_object", put_ok)
               /\ IF put_ok
                  THEN /\ s3' = SetItem(s3, transcript_key(user_id[r], now),
                                        transcript_of(conversation[r]))
                       /\ pc' = [pc EXCEPT ![r] = "render"]
                       /\ UNCHANGED <<user_id, message, conversation, triage_result,
                                      reply_message>>
                  ELSE /\ Leave(r, "crashed")
                       /\ UNCHANGED s3
       ELSE /\ pc' = [pc EXCEPT ![r] = "render"]
            /\ UNCHANGED <<s3, calls, raised, user_id, message, conversation,
                           triage_result, reply_message>>
    /\ UNCHANGED <<env, now, table, sns, nreq, maxActive, event, response>>

\* lines 133-141
Render(r) ==
    /\ pc[r] = "render"
    /\ response' = [response EXCEPT ![r] =
           [statusCode |-> 200,
            headers |-> [ContentType |-> "application/xml"],
            body |-> generate_twiml_response(reply_message[r])]]
    /\ Leave(r, "done")
    /\ UNCHANGED <<shared, event, calls, raised>>

\* the wall clock advances
Tick ==
    /\ now < MaxClock
    /\ now' = now + 1
    /\ UNCHANGED <<env, table, s3, sns, nreq, maxActive, pc, event, user_id, message,
                   conversation, triage_result, reply_message, response, calls, raised>>

Next ==
    \/ \E r \in Slots : Receive(r)
    \/ \E r \in Slots : VerifySignature(r)
    \/ \E r \in Slots : Validate(r)
    \/ \E r \in Slots : Load(r)
    \/ \E r \in Slots : Classify(r)
    \/ \E r \in Slots : Decide(r)
    \/ \E r \in Slots : Store(r)
    \/ \E r \in Slots : Upload(r)
    \/ \E r \in Slots : Render(r)
    \/ Tick

Spec == Init /\ [][Next]_vars

(***************************************************************************)
(* Direct calls of classify_message, as tests/test_utils.py makes them:    *)
(* every LLM environment, messages built from keyword fragments, with and  *)
(* without a history.                                                      *)
(***************************************************************************)
Fragments ==
    {"chest pain", "Chest ", "Pain", "shortness of breath", "fainting", "UNCONSCIOUS",
     "fever", "Vomit", "infection", "severe pain", "mild headache"}

RECURSIVE MessagesOf(_)
\* the concatenations of at most n fragments
MessagesOf(n) ==
    IF n = 0 THEN {""}
    ELSE LET shorter == MessagesOf(n - 1)
         IN  shorter \cup {m \o f : m \in shorter, f \in Fragments}

ClassifyEnvs ==
    {[DYNAMODB_TABLE |-> None, S3_BUCKET |-> None, SNS_TOPIC_ARN |-> "arn:test-topic",
      TWILIO_AUTH_TOKEN |-> "test-token",
      LLM_PROVIDER |-> l.LLM_PROVIDER, OPENAI_API_KEY |-> l.OPENAI_API_KEY,
      openai_installed |-> l.openai_installed, twilio_installed |-> FALSE] : l \in LLMEnvs}

InitClassify ==
    /\ env \in ClassifyEnvs
    /\ now = 0
    /\ table = EmptyDict
    /\ s3 = EmptyDict
    /\ sns = <<>>
    /\ nreq = [r \in Slots |-> 0]
    /\ maxActive = 1
    /\ pc = [r \in Slots |-> IF r = 1 THEN "classify" ELSE "idle"]
    /\ event = [r \in Slots |-> EmptyDict]
    /\ user_id = [r \in Slots |-> None]
    /\ message \in {[r \in Slots |-> IF r = 1 THEN m ELSE None] : m \in MessagesOf(MaxParts)}
    /\ conversation \in {[r \in Slots |-> IF r = 1 THEN c ELSE EmptyDict] :
                             c \in {EmptyDict, EarlierConversation}}
    /\ triage_result = [r \in Slots |-> PyNone]
    /\ reply_message = [r \in Slots |-> None]
    /\ response = [r \in Slots |-> EmptyDict]
    /\ calls = [r \in Slots |-> NoCalls]
    /\ raised = [r \in Slots |-> {}]

NextClassify == \E r \in Slots : Classify(r)

SpecClassify == InitClassify /\ [][NextClassify]_vars

(***************************************************************************)
(* Direct calls of the signature check at the head of lambda_handler:      *)
(* every auth token setting, both builds, parameter maps with up to three  *)
(* keys in every insertion order and with multi-valued parameters.         *)
(***************************************************************************)
VerifyKeys == {"Body", "From", "To"}
VerifyValues == {"hi", "+1", "hiFrom+1"}

\* the value lists of one key: a first value, and possibly a second one
VerifyLists == {<<v>> : v \in VerifyValues} \cup {<<v, "x">> : v \in VerifyValues}

\* the parameter maps over some of the keys
VerifyParamSets(keys) == UNION {[ks -> VerifyLists] : ks \in SUBSET keys}

\* the sequences that hold every element of S once
Orders(S) == {o \in [1..Cardinality(S) -> S] : \A k \in S : \E i \in DOMAIN o : o[i] = k}

\* params with the first value of one key replaced
OneValueChanged(params) ==
    UNION {{[params EXCEPT ![k] = <<v>> \o Tail(@)] : v \in VerifyValues \ {params[k][1]}} :
              k \in DOMAIN params}

\* the signature headers tried on one request: missing, with a non-ASCII
\* character, signed by the provider with the real token or with the empty
\* key, and signed for the request with one value changed
VerifySignaturesFor(params) ==
    {"", "dummy-signaturé"}
    \cup {hmac_sha1_b64(k, canonical_string(FullUrl, params)) : k \in Tokens}
    \cup {hmac_sha1_b64("test-token", canonical_string(FullUrl, p2)) :
             p2 \in OneValueChanged(params)}

VerifyEvents(keys) ==
    UNION {{[signature |-> sg, params |-> ps, order |-> o] :
               sg \in VerifySignaturesFor(ps), o \in Orders(DOMAIN ps)} :
              ps \in VerifyParamSets(keys)}

VerifyEnvs ==
    {[DYNAMODB_TABLE |-> None, S3_BUCKET |-> None, SNS_TOPIC_ARN |-> "arn:test-topic",
      TWILIO_AUTH_TOKEN |-> t,
      LLM_PROVIDER |-> "bedrock", OPENAI_API_KEY |-> None,
      openai_installed |-> FALSE, twilio_installed |-> tw] :
        t \in {None, "", "test-token"}, tw \in BOOLEAN}

InitVerify ==
    /\ env \in VerifyEnvs
    /\ now = 0
    /\ table = EmptyDict
    /\ s3 = EmptyDict
    /\ sns = <<>>
    /\ nreq = [r \in Slots |-> 0]
    /\ maxActive = 1
    /\ pc = [r \in Slots |-> IF r = 1 THEN "verify" ELSE "idle"]
    /\ event \in {[r \in Slots |-> IF r = 1 THEN e ELSE EmptyDict] : e \in VerifyEvents(VerifyKeys)}
    /\ user_id = [r \in Slots |-> None]
    /\ message = [r \in Slots |-> None]
    /\ conversation = [r \in Slots |-> EmptyDict]
    /\ triage_result = [r \in Slots |-> PyNone]
    /\ reply_message = [r \in Slots |-> None]
    /\ response = [r \in Slots |-> EmptyDict]
    /\ calls = [r \in Slots |-> NoCalls]
    /\ raised = [r \in Slots |-> {}]

NextVerify == \E r \in Slots : VerifySignature(r)

SpecVerify == InitVerify /\ [][NextVerify]_vars

(***************************************************************************)
(* The signature check on a request that carries the provider's signature  *)
(* of some request, the same or another one: parameter maps over Body and  *)
(* From, the real token, both builds.                                      *)
(***************************************************************************)
ReplayKeys == {"Body", "From"}

ReplayEvents(keys) ==
    UNION {{[signature |-> hmac_sha1_b64("test-token", canonical_string(FullUrl, p2)),
             params |-> ps, order |-> o] :
               p2 \in VerifyParamSets(keys), o \in Orders(DOMAIN ps)} :
              ps \in VerifyParamSets(keys)}

InitReplay ==
    /\ env \in {e \in VerifyEnvs : e.TWILIO_AUTH_TOKEN = "test-token"}
    /\ now = 0
    /\ table = EmptyDict
    /\ s3 = EmptyDict
    /\ sns = <<>>
    /\ nreq = [r \in Slots |-> 0]
    /\ maxActive = 1
    /\ pc = [r \in Slots |-> IF r = 1 THEN "verify" ELSE "idle"]
    /\ event \in {[r \in Slots |-> IF r = 1 THEN e ELSE EmptyDict] : e \in ReplayEvents(ReplayKeys)}
    /\ user_id = [r \in Slots |-> None]
    /\ message = [r \in Slots |-> None]
    /\ conversation = [r \in Slots |-> EmptyDict]
    /\ triage_result = [r \in Slots |-> PyNone]
    /\ reply_message = [r \in Slots |-> None]
    /\ response = [r \in Slots |-> EmptyDict]
    /\ calls = [r \in Slots |-> NoCalls]
    /\ raised = [r \in Slots |-> {}]

NextReplay == \E r \in Slots : VerifySignature(r)

SpecReplay == InitReplay /\ [][NextReplay]_vars

(***************************************************************************)
(* Two invocations of lambda_handler at once (the host runs one instance   *)
(* per request in flight), each on a validly signed request, with the      *)
(* table and the bucket configured; user +1 has a stored record, user +2   *)
(* has none.                                                               *)
(***************************************************************************)
ConcurrentUsers == {"+1", "+2"}
ConcurrentBodies == {"Chest Pain and fever", " mild headache "}

ConcurrentEnv ==
    [DYNAMODB_TABLE |-> "test-table", S3_BUCKET |-> "test-bucket",
     SNS_TOPIC_ARN |-> "arn:test-topic", TWILIO_AUTH_TOKEN |-> "test-token",
     LLM_PROVIDER |-> "bedrock", OPENAI_API_KEY |-> None,
     openai_installed |-> TRUE, twilio_installed |-> TRUE]

ConcurrentEvents ==
    {[signature |-> hmac_sha1_b64("test-token", canonical_string(FullUrl, ps)),
      params |-> ps, order |-> <<"From", "Body">>] :
        ps \in {[From |-> <<f>>, Body |-> <<b>>] : f \in ConcurrentUsers, b \in ConcurrentBodies}}

InitConcurrent ==
    /\ env = ConcurrentEnv
    /\ now = 0
    /\ InitStores(env, TRUE)
    /\ nreq = [r \in Slots |-> 1]
    /\ maxActive = 2
    /\ pc = [r \in Slots |-> "verify"]
    /\ event \in [Slots -> ConcurrentEvents]
    /\ user_id = [r \in Slots |-> None]
    /\ message = [r \in Slots |-> None]
    /\ conversation = [r \in Slots |-> EmptyDict]
    /\ triage_result = [r \in Slots |-> PyNone]
    /\ reply_message = [r \in Slots |-> None]
    /\ response = [r \in Slots |-> EmptyDict]
    /\ calls = [r \in Slots |-> NoCalls]
    /\ raised = [r \in Slots |-> {}]

NextConcurrent ==
    \/ \E r \in Slots : VerifySignature(r)
    \/ \E r \in Slots : Validate(r)
    \/ \E r \in Slots : Load(r)
    \/ \E r \in Slots : Classify(r)
    \/ \E r \in Slots : Decide(r)
    \/ \E r \in Slots : Store(r)
    \/ \E r \in Slots : Upload(r)
    \/ \E r \in Slots : Render(r)
    \/ Tick

SpecConcurrent == InitConcurrent /\ [][NextConcurrent]_vars

(***************************************************************************)
(* Properties.                                                             *)
(***************************************************************************)
Left(r) == pc[r] \in {"done", "crashed"}

\* the signature the provider computes for each request it sends
Genuine ==
    [token \in Tokens |->
        [ps \in ParamSets |-> hmac_sha1_b64(token, canonical_string(FullUrl, ps))]]

GenuineSignature(r) == Genuine[auth_token_of(env)][event[r].params]

Param(r, k) == IF k \in DOMAIN event[r].params THEN event[r].params[k][1] ELSE ""

\* the signature check of r's request returns False
CheckFails(r) ==
    /\ event[r].signature # GenuineSignature(r)
    /\ env.twilio_installed \/ IsAscii(event[r].signature)

C2_MissingFieldIs400 ==
    \A r \in Slots :
        (/\ pc[r] \notin {"idle", "verify"}
         /\ event[r].signature = GenuineSignature(r)
         /\ (Param(r, "From") = "" \/ Param(r, "Body") = "")) =>
            /\ pc[r] \in {"validate", "done"}
            /\ calls[r]["put_item"] = 0
            /\ calls[r]["put_object"] = 0
            /\ calls[r]["publish"] = 0
            /\ pc[r] = "done" => response[r].statusCode = 400

C2_Witness ==
    \E r \in Slots :
        /\ pc[r] = "done"
        /\ event[r].signature = GenuineSignature(r)
        /\ Param(r, "From") = ""
        /\ Param(r, "Body") = "Chest Pain and fever"
        /\ response[r].statusCode = 400

\* r's request is validly signed and carries a From and a Body that are not
\* blank
WellFormed(r) ==
    /\ event[r].signature = GenuineSignature(r)
    /\ strip(Param(r, "From")) # ""
    /\ strip(Param(r, "Body")) # ""

Replies == {EMERGENCY_REPLY, SCHEDULING_REPLY, SELF_CARE_REPLY}

\* C3: every validly signed request with non-blank From and Body ends in a
\* 200 response whose body is the XML document around a triage reply,
\* whatever the external calls and the LLM do.
C3_WellFormedGets200 ==
    \A r \in Slots :
        (Left(r) /\ WellFormed(r)) =>
            /\ pc[r] = "done"
            /\ response[r].statusCode = 200
            /\ \E reply \in Replies : response[r].body = generate_twiml_response(reply)

\* C4: a HIGH message whose publish fails still gets the emergency reply, and
\* its conversation is still saved.
C4_PublishFailureKeepsReply ==
    \A r \in Slots :
        (Left(r) /\ "publish" \in raised[r]) =>
            /\ pc[r] = "done"
            /\ response[r].statusCode = 200
            /\ response[r].body = generate_twiml_response(EMERGENCY_REPLY)
            /\ Configured(env.DYNAMODB_TABLE) => calls[r]["put_item"] = 1

\* the decision step of r returns in this step
DecideReturns(r) == pc[r] = "decide" /\ pc'[r] = "store"

\* C5: a decision step that returns leaves the history it found followed by
\* exactly one entry, which holds the message just processed.
C5_OneAppend ==
    [][\A r \in Slots :
          DecideReturns(r) =>
              LET before == Get(conversation[r], "history", <<>>)
                  after == conversation'[r]["history"]
              IN  /\ Len(after) = Len(before) + 1
                  /\ SubSeq(after, 1, Len(before)) = before
                  /\ after[Len(after)].message = message[r]]_vars

C5_Witness ==
    \E r \in Slots :
        /\ pc[r] = "store"
        /\ Len(conversation[r]["history"]) = 2
        /\ conversation[r]["triage_level"] = "CRITICAL"

\* the urgency of a triage result as §3 normalizes it: upper case, LOW when absent
UrgencyOf(t) ==
    IF "urgency" \in DOMAIN t.entries THEN upper(t.entries["urgency"].val) ELSE "LOW"

Decided(r) == pc[r] \in {"store", "upload", "render"}

\* C6: once the decision step has run, the conversation's triage_level is the
\* normalized urgency of the message being processed, whatever it was before;
\* with one invocation at a time the record saved for the user carries it too.
C6_LevelIsLatestUrgency ==
    \A r \in Slots :
        /\ Decided(r) => conversation[r]["triage_level"] = UrgencyOf(triage_result[r])
        /\ (/\ pc[r] \in {"upload", "render"}
            /\ maxActive = 1
            /\ Configured(env.DYNAMODB_TABLE)) =>
               table[user_id[r]]["triage_level"] = UrgencyOf(triage_result[r])

\* a LOW message of a user whose earlier message was HIGH has been saved
C6_Witness ==
    \E r \in Slots :
        /\ pc[r] = "upload"
        /\ user_id[r] \in DOMAIN table
        /\ Len(table[user_id[r]]["history"]) = 2
        /\ table[user_id[r]]["history"][1] = EarlierConversation["history"][1]
        /\ table[user_id[r]]["triage_level"] = "LOW"

\* the triage result is a dict whose urgency is a str
HasStrUrgency(t) ==
    /\ t.type = "dict"
    /\ "urgency" \in DOMAIN t.entries => t.entries["urgency"].type = "str"

\* C7: the decision step publishes exactly one alert, whose subject names the
\* request's user, and replies with the emergency text when the urgency
\* normalizes to HIGH; it publishes nothing and replies with the scheduling
\* text for MEDIUM and with the self-care text for LOW; a step that calls or
\* completes a publish is always the step of a HIGH message.
C7_DecisionByUrgency ==
    [][\A r \in Slots :
          (pc[r] = "decide" /\ pc'[r] # "decide") =>
              LET published == Len(sns') - Len(sns)
                  attempts == calls'[r]["publish"] - calls[r]["publish"]
                  high == HasStrUrgency(triage_result[r])
                              /\ UrgencyOf(triage_result[r]) = "HIGH"
              IN  /\ ~high => (published = 0 /\ attempts = 0)
                  /\ high => attempts = 1
                  /\ pc'[r] = "store" =>
                       LET u == UrgencyOf(triage_result[r])
                       IN  /\ u = "HIGH" =>
                                /\ published = 1
                                /\ Contains(user_id[r], sns'[Len(sns')].Subject)
                                /\ reply_message'[r] = EMERGENCY_REPLY
                           /\ u = "MEDIUM" => reply_message'[r] = SCHEDULING_REPLY
                           /\ u = "LOW" => reply_message'[r] = SELF_CARE_REPLY]_vars

\* a lower-case "high" of the LLM has been decided: alert sent, emergency reply
C7_Witness ==
    \E r \in Slots :
        /\ pc[r] = "store"
        /\ triage_result[r] = UrgencyDict(PyStr("high"))
        /\ reply_message[r] = EMERGENCY_REPLY
        /\ calls[r]["publish"] = 1
        /\ Len(sns) > 0
        /\ Contains(user_id[r], sns[Len(sns)].Subject)

HighKeywordSet == {"chest pain", "shortness of breath", "fainting", "unconscious"}
MediumKeywordSet == {"fever", "vomit", "infection", "severe pain"}

\* the urgency the keyword rules give a message
KeywordUrgency(m) ==
    IF \E kw \in HighKeywordSet : Contains(kw, lower(m)) THEN "HIGH"
    ELSE IF \E kw \in MediumKeywordSet : Contains(kw, lower(m)) THEN "MEDIUM"
    ELSE "LOW"

\* classify_message took its keyword fallback: the LLM was not called, or the
\* call failed
FellBack(r) == calls[r]["llm"] = 0 \/ "llm" \in raised[r]

C9_UsableResult ==
    \A r \in Slots :
        pc[r] = "decide" =>
            /\ triage_result[r].type = "dict"
            /\ "urgency" \in DOMAIN triage_result[r].entries
            /\ triage_result[r].entries["urgency"].type = "str"
            /\ upper(triage_result[r].entries["urgency"].val) \in {"LOW", "MEDIUM", "HIGH"}

\* C10: load_conversation always returns to the handler: the stored record,
\* unchanged, when the lookup succeeds and finds one; otherwise a new
\* conversation of that user with empty history and unset triage_level and
\* last_intent.
C10_LoadNeverRaises ==
    [][\A r \in Slots :
          (pc[r] = "load" /\ pc'[r] # "load") =>
              /\ pc'[r] = "classify"
              /\ Configured(env.DYNAMODB_TABLE) =>
                    LET c == conversation'[r]
                    IN  IF "get_item" \notin raised'[r] /\ user_id[r] \in DOMAIN table
                        THEN c = table[user_id[r]]
                        ELSE /\ DOMAIN c = {"user_id", "history", "last_intent",
                                            "triage_level", "created_at", "updated_at"}
                             /\ c["user_id"] = user_id[r]
                             /\ c["history"] = <<>>
                             /\ c["last_intent"] = None
                             /\ c["triage_level"] = None]_vars

\* a lookup that failed for a user with a stored record gave a new conversation
C10_Witness ==
    \E r \in Slots :
        /\ pc[r] = "classify"
        /\ "get_item" \in raised[r]
        /\ user_id[r] \in DOMAIN table
        /\ table[user_id[r]]["history"] # <<>>
        /\ conversation[r]["history"] = <<>>

\* C11: with an empty auth token the signature check returns False for every
\* request, so the handler answers every request with 403.
C11_EmptyTokenRejects ==
    \A r \in Slots :
        (pc[r] \notin {"idle", "verify"} /\ auth_token_of(env) = "") =>
            /\ pc[r] = "done"
            /\ response[r].statusCode = 403

\* C12: with a non-empty token the check accepts the signature of the url
\* followed by each key and its first value in lexicographic key order,
\* whatever the order the parameters were supplied in and whatever their
\* further values, and rejects the signature of the same request with the
\* first value of one parameter changed.
C12_AcceptsTheSignedParams ==
    \A r \in Slots :
        (pc[r] \notin {"idle", "verify"} /\ auth_token_of(env) # "") =>
            LET token == auth_token_of(env)
                signed(ps) == hmac_sha1_b64(token, canonical_string(FullUrl, ps))
            IN  /\ event[r].signature = signed(event[r].params) => pc[r] = "validate"
                /\ \A p2 \in OneValueChanged(event[r].params) :
                       event[r].signature = signed(p2) =>
                           /\ pc[r] = "done"
                           /\ response[r].statusCode = 403

\* accepted: three parameters supplied in descending key order, one of them
\* with a second value
C12_Witness ==
    \E r \in Slots :
        /\ pc[r] = "validate"
        /\ auth_token_of(env) = "test-token"
        /\ event[r].order = <<"To", "From", "Body">>
        /\ event[r].params["Body"] = <<"hi", "x">>

\* C13: a validly signed request whose From or Body is not empty but blank
\* (empty after trimming white space) is answered 400.
C13_BlankFieldIs400 ==
    \A r \in Slots :
        (/\ Left(r)
         /\ event[r].signature = GenuineSignature(r)
         /\ \E k \in {"From", "Body"} : Param(r, k) # "" /\ strip(Param(r, k)) = "") =>
            /\ pc[r] = "done"
            /\ response[r].statusCode = 400

\* r saves its conversation in this step
Saves(r) == pc[r] = "store" /\ pc'[r] = "upload" /\ Configured(env.DYNAMODB_TABLE)

\* the history stored for user u, empty when u has no record
StoredHistory(tbl, u) == IF u \in DOMAIN tbl THEN tbl[u]["history"] ELSE <<>>

\* C14: with one invocation at a time, every save leaves the stored history
\* of the user equal to the history stored before followed by exactly one
\* entry, also after a failed load.
C14_StoredHistoryAppendOnly ==
    [][\A r \in Slots :
          (Saves(r) /\ maxActive = 1) =>
              LET before == StoredHistory(table, user_id[r])
                  after == StoredHistory(table', user_id[r])
              IN  /\ Len(after) = Len(before) + 1
                  /\ SubSeq(after, 1, Len(before)) = before]_vars

\* C17: every transcript upload writes a key that holds no transcript yet.
C17_TranscriptKeyIsNew ==
    [][\A r \in Slots :
          (pc[r] = "upload" /\ pc'[r] = "render" /\ Configured(env.S3_BUCKET)) =>
              /\ transcript_key(user_id[r], now) \notin DOMAIN s3
              /\ \A k \in DOMAIN s3 : s3'[k] = s3[k]]_vars

\* C19: the created_at of a stored record never changes.
C19_CreatedAtImmutable ==
    [][\A u \in DOMAIN table :
          /\ u \in DOMAIN table'
          /\ table'[u]["created_at"] = table[u]["created_at"]]_vars

\* the record of user +1 before the two concurrent requests
StoredBefore == put_item(EmptyDict, EarlierConversation)

\* both invocations have answered 200 to a request of user u
BothAnswered(u) ==
    \A r \in Slots :
        /\ pc[r] = "done"
        /\ response[r].statusCode = 200
        /\ Param(r, "From") = u

\* C15: after two concurrent requests of one user have both completed, the
\* stored history is the history stored before them followed by one or both
\* of the new messages.
C15_AtMostOneAppendLost ==
    \A u \in ConcurrentUsers :
        BothAnswered(u) =>
            LET before == StoredHistory(StoredBefore, u)
                after == StoredHistory(table, u)
            IN  /\ Len(after) \in {Len(before) + 1, Len(before) + 2}
                /\ SubSeq(after, 1, Len(before)) = before
                /\ \A i \in (Len(before) + 1)..Len(after) :
                       \E r \in Slots : after[i].message = strip(Param(r, "Body"))

\* the table with the records of all users but u removed
Only(tbl, u) == [k \in (DOMAIN tbl) \cap {u} |-> tbl[k]]

\* C16: under every interleaving of two invocations, a step changes the
\* stored record of a user only when it is the save of a request of that
\* user, and what a load returns depends on the record of its own user only.
C16_OnlyOwnRecord ==
    [][/\ \A u \in (DOMAIN table) \cup (DOMAIN table') :
              (u \notin DOMAIN table \/ u \notin DOMAIN table' \/ table'[u] # table[u]) =>
                  \E r \in Slots : Saves(r) /\ user_id[r] = u
       /\ \A r \in Slots :
              (pc[r] = "load" /\ pc'[r] = "classify") =>
                  \E lookup_ok \in BOOLEAN :
                      conversation'[r] =
                          load_conversation(Only(table, user_id[r]), user_id[r], lookup_ok, now)]_vars

\* user +2 has saved a first record while a request of user +1 is between its
\* load and its save; the record of +1 is as it was
C16_Witness ==
    /\ pc[1] = "store"
    /\ user_id[1] = "+1"
    /\ pc[2] = "upload"
    /\ user_id[2] = "+2"
    /\ "+2" \in DOMAIN table
    /\ table["+1"] = EarlierConversation

\* the steps of an accepted request, in the order of spec section 4.7
Pipeline == <<"verify", "validate", "load", "classify", "decide", "store", "upload", "render">>

Position(step) == CHOOSE i \in 1..Len(Pipeline) : Pipeline[i] = step

InPipeline(p) == \E i \in 1..Len(Pipeline) : Pipeline[i] = p

\* the step in which each service is called
CalledIn ==
    [get_item |-> "load", classify_message |-> "classify", llm |-> "classify",
     publish |-> "decide", put_item |-> "store", put_object |-> "upload"]

\* C18: an invocation moves from each step only to the next one of the order
\* verify, validate, load, classify, decide, store, upload, render, or out of
\* the handler, so no step runs twice; each service is called at most once
\* and only in its step (the publish in the decide step, before the store
\* step); and when a HIGH message is saved its alert has been published.
C18_StepsInOrder ==
    [][\A r \in Slots :
          /\ (InPipeline(pc[r]) /\ pc'[r] # pc[r]) =>
                \/ pc'[r] \in {"done", "crashed"}
                \/ InPipeline(pc'[r]) /\ Position(pc'[r]) = Position(pc[r]) + 1
          /\ \A svc \in Services :
                /\ calls'[r][svc] <= 1
                /\ calls'[r][svc] > calls[r][svc] => pc[r] = CalledIn[svc]
          /\ sns' # sns => \E q \in Slots : pc[q] = "decide" /\ pc'[q] = "store"
          /\ table' # table => \E q \in Slots : pc[q] = "store" /\ pc'[q] = "upload"
          /\ (Saves(r) /\ UrgencyOf(triage_result[r]) = "HIGH") =>
                /\ calls[r]["publish"] = 1
                /\ \E i \in 1..Len(sns) :
                       sns[i] = alert(env.SNS_TOPIC_ARN, user_id[r], triage_result[r])]_vars

\* a HIGH message of a user without a record: the alert is out, the save
\* failed, and the table holds no entry of the message
C18_Witness ==
    \E r \in Slots :
        /\ pc[r] = "crashed"
        /\ "put_item" \in raised[r]
        /\ calls[r]["publish"] = 1
        /\ Param(r, "From") = "+1"
        /\ "+1" \notin DOMAIN table
        /\ Len(sns) = 1
        /\ Contains("+1", sns[1].Subject)

\* C20: when the provider name is not openai or no OpenAI key is configured,
\* classify_message does not call the LLM and returns what the fallback
\* classifier returns on the message, for every history.
C20_FallbackWithoutProviderOrKey ==
    \A r \in Slots :
        (/\ pc[r] = "decide"
         /\ llm_provider(env) # "openai" \/ env.OPENAI_API_KEY \in {None, ""}) =>
            /\ calls[r]["llm"] = 0
            /\ triage_result[r] = fallback_classifier(message[r])

\* provider bedrock with a key configured and the openai package installed,
\* called with a history: the fallback result
C20_Witness ==
    \E r \in Slots :
        /\ pc[r] = "decide"
        /\ env.LLM_PROVIDER = "bedrock"
        /\ env.OPENAI_API_KEY = "sk-test"
        /\ env.openai_installed
        /\ Get(conversation[r], "history", <<>>) # <<>>
        /\ message[r] = "Vomitfever"
        /\ calls[r]["llm"] = 0
        /\ triage_result[r].entries["urgency"] = PyStr("MEDIUM")

\* a parameter map after the collapse to first values
FirstValues(params) == [k \in DOMAIN params |-> params[k][1]]

\* the provider's signature of the request with parameters p2
SignedFor(p2) == hmac_sha1_b64("test-token", canonical_string(FullUrl, p2))

\* C21 as stated: a signature the provider made for a parameter map is
\* rejected on every request whose parameter map (after first-value
\* collapse) is a different one.
C21_SignatureIdentifiesParams ==
    \A r \in Slots :
        pc[r] \notin {"idle", "verify"} =>
            \A p2 \in VerifyParamSets(ReplayKeys) :
                (/\ event[r].signature = SignedFor(p2)
                 /\ FirstValues(p2) # FirstValues(event[r].params)) =>
                    /\ pc[r] = "done"
                    /\ response[r].statusCode = 403

\* C21 amended: a signature the provider made for a parameter map is
\* accepted on a request exactly when the url followed by the keys and first
\* values in key order spells the same string for both maps, which two
\* different maps can do; otherwise the request is answered 403.
C21_AcceptedIffSameString ==
    \A r \in Slots :
        pc[r] \notin {"idle", "verify"} =>
            \A p2 \in VerifyParamSets(ReplayKeys) :
                event[r].signature = SignedFor(p2) =>
                    IF canonical_string(FullUrl, p2) = canonical_string(FullUrl, event[r].params)
                    THEN pc[r] = "validate"
                    ELSE pc[r] = "done" /\ response[r].statusCode = 403

\* the request Body=hi, From=+1 is accepted with the signature made for the
\* single parameter Body=hiFrom+1
C21_Witness ==
    \E r \in Slots :
        /\ pc[r] = "validate"
        /\ FirstValues(event[r].params) = [Body |-> "hi", From |-> "+1"]
        /\ event[r].signature = SignedFor([Body |-> <<"hiFrom+1">>])

====
